---- MODULE Spec2Model ----
(***************************************************************************)
(* Model of train.py: the checkpoint-resumable training loop.              *)
(*                                                                         *)
(* One output directory lives through a sequence of runs of train().  A    *)
(* run is one process; it can be terminated between any two steps, and the *)
(* next run sees whatever the terminated run left on disk.                 *)
(*                                                                         *)
(* dev_metric is correct / examples for a fixed number of dev examples, so *)
(* it is modelled by the number of correct examples, 0 .. MaxMetric.       *)
(* The weights of a model are identified by the dev metric they achieve.   *)
(*                                                                         *)
(* orion.client.IS_ORION_ON is read only by the except clause of train     *)
(* (line 61), so its value is drawn when an exception is raised.  The      *)
(* variables below the line "runs" record the history of the directory and *)
(* of the run; the program does not read them.                             *)
(***************************************************************************)
EXTENDS Integers, Sequences, FiniteSets, TLC

\* ---------------------------------------------------------------- bounds
MaxMetric == 2
MaxEpoch == 3
MaxPatience == 2
MaxRuns == 2

\* ------------------------------------------------------- program constants
\* Python's None for an integer-valued name; also "name not bound yet".
None == -1
\* the score assigned on a caught out-of-memory failure (train.py line 65)
OOM_SCORE == -999

Metrics == 0 .. MaxMetric

\* ------------------------------------------------------------ disk content
\* best_model.pt: absent, opened for writing but not yet written, or a full
\* snapshot of weights achieving dev metric acc.
AbsentModel == [state |-> "absent", acc |-> None]
PartialModel == [state |-> "partial", acc |-> None]
FullModel(a) == [state |-> "full", acc |-> a]

\* A plain YAML scalar as yaml's dump writes it and its load resolves it:
\* the text 'null', an integer literal, or a float literal (the repr of a
\* Python float, which always carries a '.' or an exponent).
YamlNull == [form |-> "null", digits |-> 0]
\* dump: None becomes 'null', a number the literal of its Python type
represent(v, type) ==
    IF v = None THEN YamlNull ELSE [form |-> type, digits |-> v]
\* load: the value a plain scalar resolves to
construct_NullIsZero(scalar) == scalar.digits
construct(scalar) ==
    IF scalar.form = "null" THEN None ELSE scalar.digits

\* stats.yaml: absent, truncated by open(.., 'w') and still empty, or the
\* dumped mapping {best_dev_metric, epoch}.
AbsentStats ==
    [state |-> "absent", best_dev_metric |-> YamlNull, epoch |-> YamlNull]
EmptyStats ==
    [state |-> "empty", best_dev_metric |-> YamlNull, epoch |-> YamlNull]
FullStats(b, e) ==
    [state |-> "full", best_dev_metric |-> represent(b, "float"),
     epoch |-> represent(e, "int")]
\* the values a complete state record holds
StatsBest(sfile) == construct(sfile.best_dev_metric)
StatsEpoch(sfile) == construct(sfile.epoch)

\* ----------------------------------------------------------- exceptions
NoErr == [type |-> "none", oom |-> FALSE]
\* what a collaborator (model, optimizer, loss, data source) can raise:
\* a RuntimeError or another exception, its message naming
\* 'CUDA out of memory' or not.
CollaboratorErrors == [type : {"RuntimeError", "Other"}, oom : BOOLEAN]
FileNotFoundError == [type |-> "FileNotFoundError", oom |-> FALSE]
UnboundLocalError == [type |-> "UnboundLocalError", oom |-> FALSE]
LoadError == [type |-> "RuntimeError", oom |-> FALSE]
OSError == [type |-> "OSError", oom |-> FALSE]

VARIABLES
    pc,                  \* position of the running process
    dirExists,           \* os.path.exists(output)
    modelFile,           \* output/best_model.pt
    statsFile,           \* output/stats.yaml
    model,               \* in-memory weights: [src, acc]
    start_from_scratch,  \* argument of train
    orion_on,            \* orion.client.IS_ORION_ON as line 61 reads it
    patience,            \* argument of train
    max_epoch,           \* argument of train
    start_epoch,
    epoch,               \* loop variable, None while unbound
    best_dev_metric,
    not_improving_since,
    dev_metric,
    err,                 \* the exception in flight or propagated
    reports,             \* values handed to report_results, in order
    sink,                \* names handed to log_metric, in order
    runs,                \* number of runs started on the directory
    loaded_best,         \* best_dev_metric right after initialization
    run_max,             \* largest of loaded_best and this run's dev metrics
    fails,               \* consecutive epochs of this run, up to the last
                         \* one evaluated, whose dev metric did not strictly
                         \* exceed the best metric known before them
    run_writes,          \* number of write_stats calls of this run
    last_written,        \* best_dev_metric of the latest write_stats ever
    completed,           \* per epoch index: times its state record was written
    everScratch,         \* some run was started with start_from_scratch
    everKilled,          \* some run was terminated from outside
    afterPatience        \* the run before this one ended by itself, its
                         \* loop stopped by patience

vars == <<pc, dirExists, modelFile, statsFile, model, start_from_scratch,
          orion_on, patience, max_epoch, start_epoch, epoch, best_dev_metric,
          not_improving_since, dev_metric, err, reports, sink, runs,
          loaded_best, run_max, fails, run_writes, last_written, completed,
          everScratch, everKilled, afterPatience>>

disk == <<dirExists, modelFile, statsFile>>
config == <<start_from_scratch, patience, max_epoch>>
failure == <<err, orion_on>>
history == <<last_written, completed, everScratch, everKilled,
             afterPatience>>
ghost == <<loaded_best, run_max, fails, run_writes, history>>

Stopped == {"idle", "done", "failed", "killed"}

InitialModel == [src |-> "initial", acc |-> None]

\* ------------------------------------------------------------ load_stats
\* yaml load of the state record: the mapping, None for an empty document,
\* FileNotFoundError when the file is not there.
load_stats(sfile) ==
    IF sfile.state = "full"
    THEN [raises |-> FALSE, isNone |-> FALSE,
          best_dev_metric |-> construct(sfile.best_dev_metric),
          epoch |-> construct(sfile.epoch)]
    ELSE IF sfile.state = "empty"
    THEN [raises |-> FALSE, isNone |-> TRUE,
          best_dev_metric |-> None, epoch |-> None]
    ELSE [raises |-> TRUE, isNone |-> TRUE,
          best_dev_metric |-> None, epoch |-> None]

NoStats == [raises |-> FALSE, isNone |-> TRUE,
            best_dev_metric |-> None, epoch |-> None]

\* ----------------------------------------------------------- reload_model
\* The four branches of reload_model: what is returned, whether the saved
\* weights are loaded into the model, whether the directory is created, and
\* the exception raised, if any.
\* lines 26-38: the branches taken when start_from_scratch does not apply
reload_existing_StatsOnly(dirE, mfile, sfile) ==
    IF mfile.state = "full" \/ sfile.state = "full"
    THEN [stats |-> load_stats(sfile), load |-> mfile.state = "full",
          makedirs |-> FALSE, err |-> NoErr]
    ELSE [stats |-> NoStats, load |-> FALSE, makedirs |-> ~dirE, err |-> NoErr]
reload_existing(dirE, mfile, sfile) ==
    IF mfile.state # "absent"
    THEN IF mfile.state = "partial"
         THEN [stats |-> NoStats, load |-> FALSE, makedirs |-> FALSE,
               err |-> LoadError]
         ELSE IF load_stats(sfile).raises
         THEN [stats |-> NoStats, load |-> TRUE, makedirs |-> FALSE,
               err |-> FileNotFoundError]
         ELSE [stats |-> load_stats(sfile), load |-> TRUE, makedirs |-> FALSE,
               err |-> NoErr]
    ELSE IF dirE
    THEN [stats |-> NoStats, load |-> FALSE, makedirs |-> FALSE, err |-> NoErr]
    ELSE [stats |-> NoStats, load |-> FALSE, makedirs |-> TRUE, err |-> NoErr]

\* lines 20-25, then the rest of reload_model
reload_model_IgnoreScratch(dirE, mfile, sfile, scratch) ==
    reload_existing(dirE, mfile, sfile)
reload_model(dirE, mfile, sfile, scratch) ==
    IF scratch /\ mfile.state # "absent"
    THEN [stats |-> NoStats, load |-> FALSE, makedirs |-> FALSE, err |-> NoErr]
    ELSE reload_existing(dirE, mfile, sfile)

\* lines 86-91: the epoch and the best metric the loop starts from
StartEpochOf_Zero(stats) == 0
StartEpochOf(stats) == IF stats.isNone THEN 0 ELSE stats.epoch
StartBestOf(stats) == IF stats.isNone THEN None ELSE stats.best_dev_metric

\* line 93: the streak a run starts with, whatever it resumes from
InitialStreak_Carry(stats) == IF stats.isNone THEN 0 ELSE 1
InitialStreak(stats) == 0

\* line 94: the value range(start_epoch, max_epoch) yields next
RangeNext(ep, start) == IF ep = None THEN start ELSE ep + 1
\* line 94: range stops before max_epoch
InRange_Inclusive(e, max) == e <= max
InRange(e, max) == e < max

\* line 136
Improved_Always(best, dev) == TRUE
Improved_NotEqual(best, dev) == best = None \/ dev # best
Improved_OrEqual(best, dev) == best = None \/ dev >= best
Improved(best, dev) == best = None \/ dev > best

\* line 152
PatienceExhausted_Strict(streak, p) == streak > p
PatienceExhausted(streak, p) == streak >= p

\* line 61
Caught_NoOrion(e, orion) == e.type = "RuntimeError" /\ e.oom
Caught_AnyError(e, orion) == orion
Caught(e, orion) == e.type = "RuntimeError" /\ orion /\ e.oom

\* line 73: orion minimizes
Objective_NoSign(best) == best
Objective(best) == 0 - best

\* ------------------------------------------------------------------ Init
InitCommon ==
    /\ pc = "idle"
    /\ model = InitialModel
    /\ start_from_scratch = FALSE
    /\ orion_on = FALSE
    /\ patience = 1
    /\ max_epoch \in 1 .. MaxEpoch
    /\ start_epoch = 0
    /\ epoch = None
    /\ best_dev_metric = None
    /\ not_improving_since = 0
    /\ dev_metric = None
    /\ err = NoErr
    /\ reports = <<>>
    /\ sink = <<>>
    /\ runs = 0
    /\ loaded_best = None
    /\ run_max = None
    /\ fails = 0
    /\ run_writes = 0
    /\ last_written = None
    /\ completed = [e \in 0 .. MaxEpoch - 1 |-> 0]
    /\ everScratch = FALSE
    /\ everKilled = FALSE
    /\ afterPatience = FALSE

\* the output location does not exist, or is an empty directory
Init ==
    /\ InitCommon
    /\ dirExists \in BOOLEAN
    /\ modelFile = AbsentModel
    /\ statsFile = AbsentStats

\* ----------------------------------------------------------------- train
\* a new process calls train(...) on the output directory
StartRun ==
    /\ pc \in Stopped
    /\ runs < MaxRuns
    /\ runs' = runs + 1
    /\ start_from_scratch' \in BOOLEAN
    /\ orion_on' = FALSE
    /\ patience' \in 1 .. MaxPatience
    /\ everScratch' = (everScratch \/ start_from_scratch')
    /\ pc' = "reload_model"
    /\ model' = InitialModel
    /\ start_epoch' = 0
    /\ epoch' = None
    /\ best_dev_metric' = None
    /\ not_improving_since' = 0
    /\ dev_metric' = None
    /\ err' = NoErr
    /\ reports' = <<>>
    /\ sink' = <<>>
    /\ loaded_best' = None
    /\ run_max' = None
    /\ fails' = 0
    /\ run_writes' = 0
    /\ afterPatience' = /\ pc = "done"
                        /\ err = NoErr
                        /\ PatienceExhausted(not_improving_since, patience)
    /\ UNCHANGED <<disk, max_epoch, last_written, completed, everKilled>>

\* lines 85-93: reload_model and the start of the loop state
ReloadModel ==
    /\ pc = "reload_model"
    /\ LET r == reload_model(dirExists, modelFile, statsFile, start_from_scratch)
       IN /\ model' = IF r.load THEN [src |-> "loaded", acc |-> modelFile.acc]
                      ELSE model
          /\ \/ /\ r.err = NoErr
                /\ dirExists' = (dirExists \/ r.makedirs)
                /\ start_epoch' = StartEpochOf(r.stats)
                /\ best_dev_metric' = StartBestOf(r.stats)
                /\ loaded_best' = StartBestOf(r.stats)
                /\ run_max' = StartBestOf(r.stats)
                /\ not_improving_since' = InitialStreak(r.stats)
                /\ pc' = "for_epoch"
                /\ UNCHANGED <<err, orion_on>>
             \/ /\ r.err # NoErr
                /\ err' = r.err
                /\ orion_on' \in BOOLEAN
                /\ pc' = "raised"
                /\ UNCHANGED <<dirExists, start_epoch, best_dev_metric,
                               loaded_best, run_max, not_improving_since>>
             \/ /\ r.makedirs
                /\ err' = OSError
                /\ orion_on' \in BOOLEAN
                /\ pc' = "raised"
                /\ UNCHANGED <<dirExists, start_epoch, best_dev_metric,
                               loaded_best, run_max, not_improving_since>>
    /\ UNCHANGED <<modelFile, statsFile, config, epoch, dev_metric, reports,
                   sink, runs, fails, run_writes, history>>

\* line 94: for epoch in range(start_epoch, max_epoch)
ForEpoch ==
    /\ pc = "for_epoch"
    /\ IF InRange(RangeNext(epoch, start_epoch), max_epoch)
       THEN /\ epoch' = RangeNext(epoch, start_epoch)
            /\ pc' = "train_phase"
       ELSE /\ epoch' = epoch
            /\ pc' = "after_loop"
    /\ UNCHANGED <<disk, model, config, start_epoch, best_dev_metric,
                   not_improving_since, dev_metric, failure, reports, sink, runs,
                   ghost>>

\* lines 96-115: one pass over train_loader
TrainPhase ==
    /\ pc = "train_phase"
    /\ \/ /\ model' = [src |-> "trained", acc |-> None]
          /\ pc' = "eval_phase"
          /\ UNCHANGED <<err, orion_on>>
       \/ /\ err' \in CollaboratorErrors
          /\ orion_on' \in BOOLEAN
          /\ pc' = "raised"
          /\ model' = model
    /\ UNCHANGED <<disk, config, start_epoch, epoch, best_dev_metric,
                   not_improving_since, dev_metric, reports, sink, runs,
                   ghost>>

\* lines 117-130: one pass over dev_loader
EvalPhase ==
    /\ pc = "eval_phase"
    /\ \/ /\ \E d \in Metrics :
                /\ dev_metric' = d
                /\ model' = [src |-> "trained", acc |-> d]
                /\ run_max' = IF d > run_max THEN d ELSE run_max
                /\ fails' = IF run_max # None /\ d <= run_max
                            THEN fails + 1 ELSE 0
          /\ pc' = "log_metric"
          /\ UNCHANGED <<err, orion_on>>
       \/ /\ err' \in CollaboratorErrors
          /\ orion_on' \in BOOLEAN
          /\ pc' = "raised"
          /\ UNCHANGED <<model, dev_metric, run_max, fails>>
    /\ UNCHANGED <<disk, config, start_epoch, epoch, best_dev_metric,
                   not_improving_since, reports, sink, runs, loaded_best,
                   run_writes, history>>

\* lines 131-132
LogMetric_Twice ==
    /\ pc = "log_metric"
    /\ sink' = sink \o <<"dev_metric", "loss", "dev_metric", "loss">>
    /\ pc' = "improvement_check"
    /\ UNCHANGED <<disk, model, config, start_epoch, epoch, best_dev_metric,
                   not_improving_since, dev_metric, failure, reports, runs, ghost>>
LogMetric ==
    /\ pc = "log_metric"
    /\ sink' = sink \o <<"dev_metric", "loss">>
    /\ pc' = "improvement_check"
    /\ UNCHANGED <<disk, model, config, start_epoch, epoch, best_dev_metric,
                   not_improving_since, dev_metric, failure, reports, runs, ghost>>

\* lines 136-142, up to the call of torch.save
ImprovementCheck ==
    /\ pc = "improvement_check"
    /\ IF Improved(best_dev_metric, dev_metric)
       THEN /\ best_dev_metric' = dev_metric
            /\ not_improving_since' = 0
            /\ pc' = "torch_save"
       ELSE /\ best_dev_metric' = best_dev_metric
            /\ not_improving_since' = not_improving_since + 1
            /\ pc' = "write_stats"
    /\ UNCHANGED <<disk, model, config, start_epoch, epoch, dev_metric, failure,
                   reports, sink, runs, ghost>>

\* lines 139-140: torch.save opens best_model.pt for writing ...
TorchSaveOpen ==
    /\ pc = "torch_save"
    /\ modelFile' = PartialModel
    /\ pc' = "torch_save_write"
    /\ UNCHANGED <<dirExists, statsFile, model, config, start_epoch, epoch,
                   best_dev_metric, not_improving_since, dev_metric, failure,
                   reports, sink, runs, ghost>>

\* ... and serializes model.state_dict() into it
TorchSaveWrite ==
    /\ pc = "torch_save_write"
    /\ modelFile' = FullModel(model.acc)
    /\ pc' = "write_stats"
    /\ UNCHANGED <<dirExists, statsFile, model, config, start_epoch, epoch,
                   best_dev_metric, not_improving_since, dev_metric, failure,
                   reports, sink, runs, ghost>>

\* line 43 (called from line 150): open(stats.yaml, 'w') truncates the file
WriteStatsOpen ==
    /\ pc = "write_stats"
    /\ statsFile' = EmptyStats
    /\ pc' = "write_stats_dump"
    /\ UNCHANGED <<dirExists, modelFile, model, config, start_epoch, epoch,
                   best_dev_metric, not_improving_since, dev_metric, failure,
                   reports, sink, runs, ghost>>

\* line 44: dump({best_dev_metric, epoch: epoch + 1}) and close
WriteStatsDump ==
    /\ pc = "write_stats_dump"
    /\ statsFile' = FullStats(best_dev_metric, epoch + 1)
    /\ run_writes' = run_writes + 1
    /\ last_written' = best_dev_metric
    /\ completed' = [completed EXCEPT ![epoch] = @ + 1]
    /\ pc' = "patience_check"
    /\ UNCHANGED <<dirExists, modelFile, model, config, start_epoch, epoch,
                   best_dev_metric, not_improving_since, dev_metric, err,
                   orion_on, reports, sink, runs, loaded_best, run_max, fails,
                   everScratch, everKilled, afterPatience>>

\* lines 152-154
PatienceCheck ==
    /\ pc = "patience_check"
    /\ IF PatienceExhausted(not_improving_since, patience)
       THEN pc' = "after_loop"
       ELSE pc' = "for_epoch"
    /\ UNCHANGED <<disk, model, config, start_epoch, epoch, best_dev_metric,
                   not_improving_since, dev_metric, failure, reports, sink, runs,
                   ghost>>

\* line 155: the log line reads epoch, which is unbound if the loop body
\* never ran
AfterLoop ==
    /\ pc = "after_loop"
    /\ IF epoch = None
       THEN /\ err' = UnboundLocalError
            /\ orion_on' \in BOOLEAN
            /\ pc' = "raised"
       ELSE /\ UNCHANGED <<err, orion_on>>
            /\ pc' = "log_best"
    /\ UNCHANGED <<disk, model, config, start_epoch, epoch, best_dev_metric,
                   not_improving_since, dev_metric, reports, sink, runs,
                   ghost>>

\* lines 156-158
LogBest ==
    /\ pc = "log_best"
    /\ sink' = Append(sink, "best_dev_metric")
    /\ pc' = "report_results"
    /\ UNCHANGED <<disk, model, config, start_epoch, epoch, best_dev_metric,
                   not_improving_since, dev_metric, failure, reports, runs, ghost>>

\* lines 60-67: the except clause of train
TrainExcept ==
    /\ pc = "raised"
    /\ IF Caught(err, orion_on)
       THEN /\ best_dev_metric' = OOM_SCORE
            /\ pc' = "report_results"
       ELSE /\ best_dev_metric' = best_dev_metric
            /\ pc' = "failed"
    /\ UNCHANGED <<disk, model, config, start_epoch, epoch,
                   not_improving_since, dev_metric, failure, reports, sink, runs,
                   ghost>>

\* lines 69-73
ReportResults ==
    /\ pc = "report_results"
    /\ reports' = Append(reports, Objective(best_dev_metric))
    /\ pc' = "done"
    /\ UNCHANGED <<disk, model, config, start_epoch, epoch, best_dev_metric,
                   not_improving_since, dev_metric, failure, sink, runs, ghost>>

\* the process is terminated from outside; the disk stays as it is
Kill ==
    /\ pc \notin Stopped
    /\ pc' = "killed"
    /\ everKilled' = TRUE
    /\ model' = InitialModel
    /\ start_epoch' = 0
    /\ epoch' = None
    /\ best_dev_metric' = None
    /\ not_improving_since' = 0
    /\ dev_metric' = None
    /\ err' = NoErr
    /\ orion_on' = FALSE
    /\ reports' = <<>>
    /\ sink' = <<>>
    /\ loaded_best' = None
    /\ run_max' = None
    /\ fails' = 0
    /\ run_writes' = 0
    /\ UNCHANGED <<disk, config, runs, last_written, completed, everScratch,
                   afterPatience>>

Next ==
    \/ StartRun
    \/ ReloadModel
    \/ ForEpoch
    \/ TrainPhase
    \/ EvalPhase
    \/ LogMetric
    \/ ImprovementCheck
    \/ TorchSaveOpen
    \/ TorchSaveWrite
    \/ WriteStatsOpen
    \/ WriteStatsDump
    \/ PatienceCheck
    \/ AfterLoop
    \/ LogBest
    \/ TrainExcept
    \/ ReportResults
    \/ Kill

Spec == Init /\ [][Next]_vars

\* The output location as any earlier use may have left it: a checkpoint, a
\* state record whose saved model was removed, a saved model alone.
InitAnyDisk ==
    /\ InitCommon
    /\ dirExists \in BOOLEAN
    /\ modelFile \in {AbsentModel} \cup {FullModel(a) : a \in Metrics}
    /\ statsFile \in {AbsentStats}
                       \cup {FullStats(b, e) : b \in Metrics, e \in 1 .. max_epoch}
    /\ (modelFile.state = "full" \/ statsFile.state = "full") => dirExists
    /\ (modelFile.state = "full" /\ statsFile.state = "full")
           => StatsBest(statsFile) = modelFile.acc

SpecAnyDisk == InitAnyDisk /\ [][Next]_vars

\* ------------------------------------------------- write_stats, load_stats
\* write_stats(output, best_dev_metric, epoch + 1) is called with any best
\* metric, None included, and any epoch, on any earlier content of
\* stats.yaml ...
InitRoundTrip ==
    /\ pc = "write_stats"
    /\ dirExists = TRUE
    /\ modelFile = AbsentModel
    /\ statsFile \in {AbsentStats, EmptyStats}
                       \cup {FullStats(b, e) : b \in Metrics \cup {None},
                                               e \in 1 .. MaxEpoch}
    /\ model = InitialModel
    /\ start_from_scratch = FALSE
    /\ orion_on = FALSE
    /\ patience = 1
    /\ max_epoch = MaxEpoch
    /\ start_epoch = 0
    /\ epoch \in 0 .. MaxEpoch - 1
    /\ best_dev_metric \in Metrics \cup {None}
    /\ not_improving_since = 0
    /\ dev_metric = None
    /\ err = NoErr
    /\ reports = <<>>
    /\ sink = <<>>
    /\ runs = 1
    /\ loaded_best = None
    /\ run_max = None
    /\ fails = 0
    /\ run_writes = 0
    /\ last_written = None
    /\ completed = [e \in 0 .. MaxEpoch - 1 |-> 0]
    /\ everScratch = FALSE
    /\ everKilled = FALSE
    /\ afterPatience = FALSE

\* ... and load_stats(output) reads the record back (lines 47-50), its two
\* values taken as lines 87-88 take them
LoadStats ==
    /\ pc = "patience_check"
    /\ LET stats == load_stats(statsFile)
       IN IF stats.raises
          THEN /\ err' = FileNotFoundError
               /\ pc' = "raised"
               /\ UNCHANGED <<start_epoch, best_dev_metric>>
          ELSE /\ err' = err
               /\ pc' = "loaded"
               /\ start_epoch' = StartEpochOf(stats)
               /\ best_dev_metric' = StartBestOf(stats)
    /\ UNCHANGED <<disk, model, config, epoch, not_improving_since,
                   dev_metric, orion_on, reports, sink, runs, ghost>>

NextRoundTrip ==
    \/ WriteStatsOpen
    \/ WriteStatsDump
    \/ LoadStats

SpecRoundTrip == InitRoundTrip /\ [][NextRoundTrip]_vars

\* ======================================================================
\* Properties
\* ======================================================================

\* the run has just been initialized: the loop has not yet drawn an epoch
JustInitialized == pc = "for_epoch" /\ epoch = None

C2_MonotoneAcrossRuns ==
    [][last_written # None => last_written' >= last_written]_vars

\* C2 (amended): within one run the values written by write_stats are
\* non-decreasing and never below the best_dev_metric the run loaded at
\* initialization.
C2_MonotoneWithinRun ==
    [][run_writes' = run_writes + 1
        => /\ run_writes > 0 => last_written' >= last_written
           /\ loaded_best # None => last_written' >= loaded_best]_vars

C2_Witness ==
    /\ pc = "patience_check"
    /\ loaded_best = 1
    /\ run_writes = 2
    /\ last_written = 2
    /\ dev_metric = 2

\* C3: on a directory on which no run was ever terminated from outside, a
\* run that stopped by itself without a collaborator failing has emitted
\* best_dev_metric to the sink and reported exactly one objective.
C3_TerminalYieldsReport ==
    (pc \in {"done", "failed"}
       /\ ~everKilled
       /\ err \notin CollaboratorErrors \cup {OSError})
        => /\ pc = "done"
           /\ Len(reports) = 1
           /\ \E i \in 1 .. Len(sink) : sink[i] = "best_dev_metric"

\* C4: once the last P epochs of the run all failed to strictly exceed
\* best_dev_metric, the loop is left right after the state record of the
\* P-th of them is written: no further epoch is drawn, trained or
\* evaluated.
C4_EarlyStop ==
    /\ pc \in {"for_epoch", "train_phase", "eval_phase"} => fails < patience
    /\ pc = "patience_check" =>
           /\ statsFile = FullStats(best_dev_metric, epoch + 1)
           /\ not_improving_since = fails

C4_Witness ==
    /\ pc = "after_loop"
    /\ fails = patience
    /\ patience = 1
    /\ epoch = 1
    /\ max_epoch = 3
    /\ best_dev_metric = 1
    /\ dev_metric = 1

\* C5: whenever a process restarts on the directory with
\* start_from_scratch = false, it finds no saved model, or a saved model
\* with a state record whose best_dev_metric is the metric of that snapshot.
C5_CheckpointResumable ==
    (pc = "reload_model" /\ ~start_from_scratch)
        => \/ modelFile.state = "absent"
           \/ /\ modelFile.state = "full"
              /\ statsFile.state = "full"
              /\ StatsBest(statsFile) = modelFile.acc

\* C6: with start_from_scratch = false in every run, the state record
\* written after epoch e holds e + 1, and every epoch below the persisted
\* next epoch was completed exactly once, none at or above it.
C6_EpochsOnce ==
    /\ pc = "patience_check" => StatsEpoch(statsFile) = epoch + 1
    /\ (~everScratch /\ statsFile.state = "full")
           => \A e \in 0 .. MaxEpoch - 1 :
                  completed[e] = IF e < StatsEpoch(statsFile) THEN 1 ELSE 0

\* C7: a RuntimeError raised in the training implementation ends in the
\* objective report with best_dev_metric = -999 exactly when orion is on
\* and the message names 'CUDA out of memory'; every other failure
\* propagates and nothing is reported.
C7_ResourceExhaustion ==
    /\ (pc \in {"report_results", "done"} /\ err # NoErr)
           => /\ err.type = "RuntimeError" /\ orion_on /\ err.oom
              /\ best_dev_metric = OOM_SCORE
              /\ pc = "done" => reports = <<999>>
    /\ pc = "failed"
           => /\ ~(err.type = "RuntimeError" /\ orion_on /\ err.oom)
              /\ reports = <<>>

C7_Witness ==
    /\ pc = "done"
    /\ err = [type |-> "RuntimeError", oom |-> TRUE]
    /\ orion_on
    /\ reports = <<999>>
    /\ epoch = 1

\* C8: a finished run has reported exactly one value, the negation of the
\* best_dev_metric it ended with: of the best metric of the run, which is
\* the one in the state record, after a completed loop, and 999 after a
\* caught out-of-memory failure.
C8_SignInversion ==
    pc = "done"
        => /\ Len(reports) = 1
           /\ reports[1] + best_dev_metric = 0
           /\ err = NoErr
                  => /\ reports[1] + run_max = 0
                     /\ statsFile.state = "full"
                     /\ reports[1] + StatsBest(statsFile) = 0
           /\ err # NoErr => reports[1] = 999

C8_Witness ==
    /\ pc = "done"
    /\ err = NoErr
    /\ run_max = 2
    /\ dev_metric = 0
    /\ reports = <<-2>>

\* C9: initialization with start_from_scratch = true on an existing saved
\* model starts at epoch 0 with no best metric, loads nothing into the
\* model and leaves the directory as it is.
C9_FreshStartOverride ==
    [][(pc = "reload_model" /\ start_from_scratch
          /\ modelFile.state # "absent" /\ pc' # "killed")
        => /\ pc' = "for_epoch"
           /\ start_epoch' = 0
           /\ best_dev_metric' = None
           /\ model' = InitialModel
           /\ UNCHANGED disk]_vars

C9_Witness ==
    /\ JustInitialized
    /\ start_from_scratch
    /\ modelFile = FullModel(2)
    /\ statsFile = FullStats(2, 2)
    /\ start_epoch = 0
    /\ best_dev_metric = None
    /\ model = InitialModel

\* C10: initialization without a saved model returns no prior state: in an
\* existing location it cannot fail and changes nothing on disk, a state
\* record that may be there is not read; a missing location is created; the
\* loop starts at epoch 0 with no best metric and an untouched model.
C10_InitWithoutModel ==
    [][(pc = "reload_model" /\ modelFile.state = "absent" /\ pc' # "killed")
        => /\ dirExists => pc' = "for_epoch"
           /\ pc' = "for_epoch"
                  => /\ start_epoch' = 0
                     /\ best_dev_metric' = None
                     /\ model' = InitialModel
                     /\ dirExists'
                     /\ UNCHANGED <<modelFile, statsFile>>
           /\ pc' # "for_epoch" => UNCHANGED disk]_vars

C10_Witness ==
    /\ JustInitialized
    /\ ~start_from_scratch
    /\ modelFile = AbsentModel
    /\ statsFile = FullStats(1, 2)
    /\ start_epoch = 0
    /\ best_dev_metric = None
    /\ runs = 1

\* C11: whoever reads the output directory, at any point, finds each of
\* stats.yaml and best_model.pt either not there or complete: never a
\* truncated state record, never a partly written snapshot.
C11_AtomicWrites ==
    /\ statsFile.state # "empty"
    /\ modelFile.state # "partial"

\* C11, for the reader the claim names: a process restarting on the
\* directory after a termination
C11_RestartSeesComplete ==
    pc = "reload_model" => C11_AtomicWrites

C13_SaveIffImproved ==
    /\ [](pc \in {"torch_save", "torch_save_write"}
            => /\ fails = 0
               /\ best_dev_metric = dev_metric
               /\ not_improving_since = 0)
    /\ [](pc = "write_stats"
            => /\ not_improving_since = fails
               /\ best_dev_metric = run_max
               /\ fails = 0 => modelFile = FullModel(dev_metric))
    /\ [][modelFile' # modelFile
            => pc \in {"torch_save", "torch_save_write"}]_vars
    /\ [][(pc = "improvement_check" /\ pc' = "write_stats")
            => /\ fails > 0
               /\ dev_metric <= best_dev_metric
               /\ best_dev_metric' = best_dev_metric
               /\ not_improving_since' = not_improving_since + 1
               /\ modelFile' = modelFile]_vars

C13_Witness ==
    /\ pc = "write_stats"
    /\ fails = 1
    /\ dev_metric = 1
    /\ best_dev_metric = 1
    /\ modelFile = FullModel(1)
    /\ run_writes = 1

\* the positions inside the body of the loop, before write_stats returns
InEpoch ==
    pc \in {"train_phase", "eval_phase", "log_metric", "improvement_check",
            "torch_save", "torch_save_write", "write_stats",
            "write_stats_dump"}

\* C14: the epochs of a run are start_epoch, start_epoch + 1, ... in this
\* order, each once, all below max_epoch; a loop that patience did not stop
\* ends right after the state record of epoch max_epoch - 1, holding
\* max_epoch, is written, so a run has at most max_epoch - start_epoch
\* epochs.
C14_MaxEpochBound ==
    /\ InEpoch => /\ start_epoch <= epoch
                  /\ epoch < max_epoch
                  /\ run_writes = epoch - start_epoch
    /\ pc = "patience_check" => /\ epoch < max_epoch
                                /\ run_writes = epoch - start_epoch + 1
                                /\ StatsEpoch(statsFile) = epoch + 1
    /\ (pc = "after_loop" /\ epoch # None /\ not_improving_since < patience)
           => /\ epoch = max_epoch - 1
              /\ StatsEpoch(statsFile) = max_epoch
              /\ run_writes = max_epoch - start_epoch
    /\ (pc = "after_loop" /\ epoch = None)
           => /\ start_epoch >= max_epoch
              /\ run_writes = 0
    /\ start_epoch <= max_epoch => run_writes <= max_epoch - start_epoch

C14_Witness ==
    /\ pc = "after_loop"
    /\ runs = 2
    /\ start_epoch = 1
    /\ epoch = 2
    /\ max_epoch = 3
    /\ not_improving_since = 0
    /\ patience = 1
    /\ run_writes = 2

\* C15 (as stated): the metrics of an epoch are emitted only after that
\* epoch's improvement check, so while the check is still to come the sink
\* holds the two values of each earlier epoch of the run and no more.
C15_EmitAfterCheck ==
    pc = "improvement_check" => Len(sink) = 2 * (epoch - start_epoch)

\* C15 (amended): in every epoch the order is training, evaluation,
\* emission of dev_metric and loss, improvement check with the save on
\* improvement, state record with epoch + 1, patience check; the two
\* metrics are emitted once per epoch, and the loop is not left before the
\* state record of its last epoch is written.
C15_EpochOrder ==
    /\ pc = "eval_phase" => model = [src |-> "trained", acc |-> None]
    /\ pc \in {"train_phase", "eval_phase", "log_metric"}
           => /\ Len(sink) = 2 * (epoch - start_epoch)
              /\ run_writes = epoch - start_epoch
    /\ pc = "log_metric" => model.acc = dev_metric
    /\ pc \in {"improvement_check", "torch_save", "torch_save_write",
               "write_stats", "write_stats_dump"}
           => /\ Len(sink) = 2 * (epoch - start_epoch + 1)
              /\ sink[Len(sink) - 1] = "dev_metric"
              /\ sink[Len(sink)] = "loss"
              /\ run_writes = epoch - start_epoch
    /\ pc \in {"write_stats", "write_stats_dump"}
           => not_improving_since = fails
    /\ pc = "patience_check"
           => /\ Len(sink) = 2 * (epoch - start_epoch + 1)
              /\ not_improving_since = fails
              /\ run_writes = epoch - start_epoch + 1
              /\ statsFile = FullStats(best_dev_metric, epoch + 1)
    /\ (pc = "after_loop" /\ epoch # None)
           => /\ run_writes = epoch - start_epoch + 1
              /\ Len(sink) = 2 * run_writes

C15_Witness ==
    /\ pc = "improvement_check"
    /\ start_epoch = 0
    /\ epoch = 1
    /\ sink = <<"dev_metric", "loss", "dev_metric", "loss">>
    /\ run_writes = 1

\* C16: initialization with start_from_scratch = false on a saved model
\* that has no state record raises the missing-file error of load_stats;
\* the error leaves train whether orion is on or not: no epoch is run,
\* the directory is not written, nothing is emitted or reported.
C16_InconsistentCheckpointFatal ==
    /\ [][(pc = "reload_model" /\ ~start_from_scratch
             /\ modelFile.state = "full" /\ statsFile.state = "absent"
             /\ pc' # "killed")
            => /\ pc' = "raised"
               /\ err' = FileNotFoundError
               /\ UNCHANGED disk]_vars
    /\ [](err = FileNotFoundError
            => /\ pc \in {"raised", "failed"}
               /\ epoch = None
               /\ run_writes = 0
               /\ sink = <<>>
               /\ reports = <<>>)
    /\ [][(err = FileNotFoundError /\ err' = FileNotFoundError)
            => UNCHANGED disk]_vars

C16_Witness ==
    /\ pc = "failed"
    /\ err = FileNotFoundError
    /\ orion_on
    /\ ~start_from_scratch
    /\ modelFile = FullModel(1)
    /\ statsFile = AbsentStats

\* the state record and the saved model are both missing, or both complete
\* with the record holding the metric of the saved snapshot
CheckpointConsistent ==
    \/ modelFile.state = "absent" /\ statsFile.state = "absent"
    \/ /\ modelFile.state = "full"
       /\ statsFile.state = "full"
       /\ StatsBest(statsFile) = modelFile.acc

\* no epoch is in progress: right after initialization, right after the
\* state record of an epoch is written, after the loop ended normally
AtEpochBoundary ==
    \/ pc \in {"for_epoch", "patience_check"}
    \/ pc \in {"after_loop", "log_best", "report_results", "done"}
         /\ err = NoErr

\* C17: on a directory that was absent or empty at first and is written
\* only by runs of train, whenever no epoch is in progress the state record
\* exists exactly if the saved model does, and then holds the metric of the
\* epoch that saved the snapshot.
C17_ConsistentAtBoundaries == AtEpochBoundary => CheckpointConsistent

\* C18: every run starts with a streak of 0.  A run resuming, with
\* start_from_scratch = false, after a run whose loop was stopped by
\* patience below max_epoch runs at least one epoch, and is stopped by
\* patience again only after P consecutive non-improving epochs of its own.
C18_StreakNotPersisted ==
    /\ JustInitialized => not_improving_since = 0
    /\ (afterPatience /\ ~start_from_scratch)
           => /\ (pc \in {"after_loop", "log_best", "report_results", "done"}
                    /\ err = NoErr /\ start_epoch < max_epoch)
                  => run_writes >= 1
              /\ (pc = "after_loop" /\ epoch # None
                    /\ PatienceExhausted(not_improving_since, patience))
                  => /\ run_writes >= patience
                     /\ fails >= patience

C18_Witness ==
    /\ afterPatience
    /\ ~start_from_scratch
    /\ pc = "patience_check"
    /\ runs = 2
    /\ start_epoch = 2
    /\ epoch = 2
    /\ max_epoch = 3
    /\ patience = 2
    /\ not_improving_since = 1

\* C19: the best metric a run holds is the maximum of the best metric it
\* loaded at initialization, if any, and the dev metrics it has evaluated;
\* the state record written at the end of each epoch holds that maximum.
C19_RunningMaximum ==
    /\ pc \in {"for_epoch", "train_phase", "eval_phase", "write_stats",
               "patience_check", "after_loop", "log_best"}
           => best_dev_metric = run_max
    /\ pc = "patience_check"
           => /\ StatsBest(statsFile) = run_max
              /\ run_max >= dev_metric
              /\ loaded_best # None => run_max >= loaded_best
              /\ run_max \in {loaded_best, dev_metric} \/ fails > 0

C19_Witness ==
    /\ pc = "patience_check"
    /\ loaded_best = 1
    /\ run_writes = 2
    /\ dev_metric = 0
    /\ best_dev_metric = 2
    /\ StatsBest(statsFile) = 2

====
